---------------------------- MODULE Spec2Model ----------------------------
(***************************************************************************)
(* Session memory store of the Sift assistant (src/memory_service.py):     *)
(* an in-memory list of entries mirrored to one JSON file by a full        *)
(* rewrite on every mutation, with the read operations search_memory,      *)
(* get_recent_memories and get_memory_stats; and the OrchestratorAgent     *)
(* (src/agents/orchestrator.py, class body, lines 68-467) that routes      *)
(* requests to its agents and stores location records in the memory.       *)
(* A second instance of the store on the same file models the sessions of  *)
(* src/app.py, each of which constructs its own MemoryService.             *)
(*                                                                         *)
(* Representation of Python values                                         *)
(*   str            a sequence of one-character strings, <<"P", "e">>      *)
(*   Optional[x]    Nothing (None) or Some(x)                              *)
(*   dict           a sequence of [k, v] pairs in insertion order, keys    *)
(*                  distinct; every dict of the model is built with its    *)
(*                  keys in one canonical order, so that equality of the   *)
(*                  sequences is equality of the dicts                     *)
(*   session value  [kind, s]: the string s itself (kind "str"), a list,   *)
(*                  tuple or set holding the one string s, the nested      *)
(*                  dict {"name": s} (kind "dict"), or False (kind "bool") *)
(*   metadata       keys and values are atoms ("type", "location_data"):   *)
(*                  the store only tests them for equality                 *)
(*   timestamp      a natural number standing for the ISO-8601 string of   *)
(*                  datetime.now().isoformat(); the strings of one epoch   *)
(*                  compare as the instants do                             *)
(***************************************************************************)
EXTENDS Integers, Sequences, FiniteSets, TLC

\* Longest store (entries in self.memories) the model explores.
MaxMem == 3
\* limit and count arguments are drawn from 0..MaxLimit.
MaxLimit == 2

Nothing == <<>>
Some(x) == <<x>>
IsNone(o) == o = Nothing
Val(o) == o[1]

\* Python truthiness of an Optional[str], Optional[dict]: None, "" and {} are falsy.
Truthy(o) == ~IsNone(o) /\ Val(o) # <<>>

--------------------------------------------------------------------------
\* The values the model ingests.

UserA == <<"A">>
UserB == <<"B">>
EmptyUser == <<>>

Pair(key, value) == [k |-> key, v |-> value]

PyStr(chars) == [kind |-> "str", s |-> chars]
PyList(chars) == [kind |-> "list", s |-> chars]
PyTuple(chars) == [kind |-> "tuple", s |-> chars]
PySet(chars) == [kind |-> "set", s |-> chars]
\* the nested dict {"name": chars}
PyDict(chars) == [kind |-> "dict", s |-> chars]
PyFalse == [kind |-> "bool", s |-> <<>>]

\* session_data payloads: {"q": "Pe"}, {"q": ["Pe"]}, {"q": ("Pe",)}, {"q": {"Pe"}}
sdStr == << Pair(<<"q">>, PyStr(<<"P", "e">>)) >>
sdList == << Pair(<<"q">>, PyList(<<"P", "e">>)) >>
sdTuple == << Pair(<<"q">>, PyTuple(<<"P", "e">>)) >>
sdSet == << Pair(<<"q">>, PySet(<<"P", "e">>)) >>

\* metadata tags: {"type": "location_data"}, {"type": "chat"},
\* {"type": "location_data", "zip_code": "94102"} and the same with "94612"
mdEmpty == <<>>
mdLoc == << Pair("type", "location_data") >>
mdChat == << Pair("type", "chat") >>
mdLocZip1 == << Pair("type", "location_data"), Pair("zip_code", "94102") >>
mdLocZip2 == << Pair("type", "location_data"), Pair("zip_code", "94612") >>

--------------------------------------------------------------------------
\* dict operations

\* key in d
HasKey(d, key) == \E i \in 1..Len(d) : d[i].k = key

\* d[key], for a key in d
Get(d, key) == d[CHOOSE i \in 1..Len(d) : d[i].k = key].v

--------------------------------------------------------------------------
\* json: the document json.dump writes and json.load reads back

\* json.dump raises TypeError on a set
Serializable(value) == value.kind # "set"

\* a str becomes a JSON string, a dict a JSON object, False the literal false,
\* a list and a tuple both become a JSON array
JsonEncodeValue(value) ==
    IF value.kind = "str" THEN [kind |-> "string", s |-> value.s]
    ELSE IF value.kind = "dict" THEN [kind |-> "object", s |-> value.s]
    ELSE IF value.kind = "bool" THEN [kind |-> "false", s |-> value.s]
    ELSE [kind |-> "array", s |-> value.s]

\* a JSON string becomes a str, a JSON object a dict, false the value False,
\* a JSON array a list
JsonDecodeValue(j) ==
    IF j.kind = "string" THEN PyStr(j.s)
    ELSE IF j.kind = "object" THEN PyDict(j.s)
    ELSE IF j.kind = "false" THEN PyFalse
    ELSE PyList(j.s)

JsonEncodeOptional(o) ==
    IF IsNone(o) THEN [kind |-> "null", s |-> <<>>]
    ELSE [kind |-> "string", s |-> Val(o)]

JsonDecodeOptional(j) ==
    IF j.kind = "null" THEN Nothing ELSE Some(j.s)

JsonEncodeDict(d) ==
    [i \in 1..Len(d) |-> Pair(d[i].k, JsonEncodeValue(d[i].v))]

JsonDecodeDict(j) ==
    [i \in 1..Len(j) |-> Pair(j[i].k, JsonDecodeValue(j[i].v))]

DictSerializable(d) == \A i \in 1..Len(d) : Serializable(d[i].v)

EntrySerializable(e) == DictSerializable(e.session_data)

JsonEncodeEntry(e) ==
    [timestamp |-> e.timestamp,
     user_id |-> JsonEncodeOptional(e.user_id),
     session_data |-> JsonEncodeDict(e.session_data),
     metadata |-> e.metadata]

JsonDecodeEntry(j) ==
    [timestamp |-> j.timestamp,
     user_id |-> JsonDecodeOptional(j.user_id),
     session_data |-> JsonDecodeDict(j.session_data),
     metadata |-> j.metadata]

JsonDump(mems) == [i \in 1..Len(mems) |-> JsonEncodeEntry(mems[i])]

JsonLoad(doc) == [i \in 1..Len(doc) |-> JsonDecodeEntry(doc[i])]

\* json.dumps(session_data): the text, for a serializable dict
Quote(chars) == <<"\"">> \o chars \o <<"\"">>

DumpsValue(value) ==
    IF value.kind = "str" THEN Quote(value.s)
    ELSE IF value.kind = "dict"
         THEN <<"{">> \o Quote(<<"n", "a", "m", "e">>) \o <<":", " ">>
              \o Quote(value.s) \o <<"}">>
    ELSE IF value.kind = "bool" THEN <<"f", "a", "l", "s", "e">>
    ELSE <<"[">> \o Quote(value.s) \o <<"]">>

RECURSIVE DumpsItems(_, _)
DumpsItems(d, i) ==
    IF i > Len(d) THEN <<>>
    ELSE (IF i > 1 THEN <<",", " ">> ELSE <<>>)
         \o Quote(d[i].k) \o <<":", " ">> \o DumpsValue(d[i].v)
         \o DumpsItems(d, i + 1)

json_dumps(d) == <<"{">> \o DumpsItems(d, 1) \o <<"}">>

\* str.lower(), on the characters the model uses
LowerChar(c) ==
    CASE c = "P" -> "p"
      [] c = "E" -> "e"
      [] c = "Q" -> "q"
      [] OTHER -> c

lower(chars) == [i \in 1..Len(chars) |-> LowerChar(chars[i])]

\* needle in hay
Contains(hay, needle) ==
    \E i \in 0..(Len(hay) - Len(needle)) :
        \A j \in 1..Len(needle) : hay[i + j] = needle[j]

--------------------------------------------------------------------------
\* MemoryService

VARIABLES
    memories,   \* self.memories of the live instance
    file,       \* the content of self.storage_path: [kind, doc]
    writable,   \* open(storage_path, 'w') succeeds (a property of the location)
    call,       \* the last call on the store: its arguments and its outcome
    pristine,   \* the live instance was constructed on a location without a
                \* document and has only had add_session_to_memory calls
    orchestrator, \* the fields of the OrchestratorAgent that holds the store
    second      \* a second MemoryService instance on the same storage_path:
                \* whether it was constructed, and its self.memories

vars == <<memories, file, writable, call, pristine, orchestrator, second>>

FileMissing == [kind |-> "missing", doc |-> <<>>]
\* text json.load rejects: an empty file, garbage, a truncated document
FileUndecodable == [kind |-> "undecodable", doc |-> <<>>]
FileJson(d) == [kind |-> "json", doc |-> d]

Entry(t, user_id, session_data, metadata) ==
    [timestamp |-> t,
     user_id |-> user_id,
     session_data |-> session_data,
     metadata |-> metadata]

\* What a call of an agent's run produced: an exception ("raises"), a dict, a
\* text holding the JSON object d, possibly in a code fence ("json"), a text
\* json.loads rejects ("garbage"), or a text holding a JSON value that is not
\* an object ("array").
Response(kind, d) == [kind |-> kind, d |-> d]
Raises == Response("raises", <<>>)
Garbage == Response("garbage", <<>>)
JsonArray == Response("array", <<>>)

\* what the four agents answer in one request, when nothing is said of them
NoResponses ==
    [intent |-> Raises, product |-> Raises, location |-> Raises,
     synthesis |-> Raises]

\* op: the operation; user_id, limit, filters, query: its arguments (limit also
\* holds count); ok: the value add_session_to_memory returned; ret: the list a
\* read returned; raised: an exception escaped to the caller; removed: how many
\* entries clear_memory took out of the list; stats: the dict get_memory_stats
\* returned; metadata: the metadata argument of add_session_to_memory;
\* request_type, user_location: the arguments of process_request; status,
\* message, location_data: the fields of the dict process_request returned;
\* invoked: the agent calls process_request made, in their order; recovered:
\* what _get_location_data returned to it; responses: what the agents answered
\* in that request; instance: the MemoryService instance the call was made on
\* (1 is the live instance, 2 the second one)
NoStats ==
    [total_memories |-> 0, unique_users |-> 0,
     oldest_memory |-> Nothing, newest_memory |-> Nothing]

Call(op) ==
    [op |-> op, user_id |-> Nothing, limit |-> 0, filters |-> Nothing,
     query |-> Nothing, ok |-> FALSE, ret |-> <<>>, raised |-> FALSE,
     removed |-> 0, stats |-> NoStats, metadata |-> Nothing,
     request_type |-> "", user_location |-> Nothing, status |-> "",
     message |-> "", location_data |-> Nothing, invoked |-> <<>>,
     recovered |-> Nothing, responses |-> NoResponses, instance |-> 1]

\* _load_memories: FileNotFoundError and JSONDecodeError are caught, any other
\* error of open() (PermissionError, IsADirectoryError) or of the read inside
\* json.load (UnicodeDecodeError on bytes that are not text in the encoding of
\* the locale) is not. rd: the existing file can be read as text, which
\* depends on the permissions and on the locale at the time of the call.
load_raises(f, rd) == f.kind # "missing" /\ ~rd

load_memories(f) ==
    IF f.kind = "json" THEN JsonLoad(f.doc) ELSE <<>>

\* A _save_memories that appends the newest entry to the document in the file.
save_memories_append(mems, f, wr) ==
    IF ~wr THEN f
    ELSE IF \E i \in 1..Len(mems) : ~EntrySerializable(mems[i])
         THEN FileUndecodable
    ELSE IF f.kind = "json" /\ mems # <<>>
         THEN FileJson(f.doc \o <<JsonEncodeEntry(mems[Len(mems)])>>)
         ELSE FileJson(JsonDump(mems))

\* A _save_memories that writes the newest entry instead of the whole list.
save_memories_newest_only(mems, f, wr) ==
    IF ~wr THEN f
    ELSE IF \A i \in 1..Len(mems) : EntrySerializable(mems[i])
         THEN FileJson(JsonDump(IF mems = <<>> THEN <<>>
                                ELSE <<mems[Len(mems)]>>))
         ELSE FileUndecodable

\* _save_memories: open(..., 'w') truncates the file, json.dump writes the
\* document piece by piece and stops at the first value it cannot serialize;
\* every exception is caught and printed.
save_memories(mems, f, wr) ==
    IF ~wr THEN f
    ELSE IF \A i \in 1..Len(mems) : EntrySerializable(mems[i])
         THEN FileJson(JsonDump(mems))
         ELSE FileUndecodable

\* metadata or {}
metadata_or_empty(metadata) ==
    IF Truthy(metadata) THEN Val(metadata) ELSE <<>>

\* An entry that falls back to a default user id when none is given.
memory_entry_default_user(t, session_data, user_id, metadata) ==
    Entry(t, IF Truthy(user_id) THEN user_id ELSE Some(<<"d">>), session_data,
          metadata_or_empty(metadata))

memory_entry(t, session_data, user_id, metadata) ==
    Entry(t, user_id, session_data, metadata_or_empty(metadata))

\* An insertion at the head of the list.
add_prepend(mems, entry) == <<entry>> \o mems

\* self.memories.append(memory_entry)
add_append(mems, entry) == Append(mems, entry)

\* MemoryService(storage_path) on the same path replaces the live instance;
\* when __init__ raises, the caller gets no instance and keeps the old one.
Construct(rd) ==
    /\ call' = [Call("construct") EXCEPT !.raised = load_raises(file, rd)]
    /\ memories' = IF load_raises(file, rd) THEN memories
                   ELSE load_memories(file)
    /\ pristine' = (pristine /\ load_raises(file, rd))
    /\ UNCHANGED <<file, writable, orchestrator, second>>

\* no second instance has been constructed
NoSecond == [live |-> FALSE, memories |-> <<>>]

\* MemoryService(storage_path) once more on the same path, the first instance
\* staying in use: the second instance loads what the file holds now.
ConstructSecond(rd) ==
    /\ call' = [Call("construct") EXCEPT !.raised = load_raises(file, rd),
                                         !.instance = 2]
    /\ second' = IF load_raises(file, rd) THEN second
                 ELSE [live |-> TRUE, memories |-> load_memories(file)]
    /\ UNCHANGED <<memories, file, writable, pristine, orchestrator>>

\* add_session_to_memory on the second instance: it appends to its own list
\* and rewrites the file from that list.
AddSecond(session_data, user_id, metadata, t) ==
    /\ second.live
    /\ Len(second.memories) < MaxMem
    /\ LET entry == memory_entry(t, session_data, user_id, metadata)
           mems == add_append(second.memories, entry)
       IN /\ second' = [second EXCEPT !.memories = mems]
          /\ file' = save_memories(mems, file, writable)
          /\ call' = [Call("add") EXCEPT !.user_id = user_id, !.ok = TRUE,
                                       !.metadata = metadata, !.instance = 2]
    /\ pristine' = FALSE
    /\ UNCHANGED <<memories, writable, orchestrator>>

\* add_session_to_memory(session_data, user_id, metadata), datetime.now() reading t.
\* _save_memories raises nothing and the list appends, so the except branch is
\* not taken and the call returns True.
Add(session_data, user_id, metadata, t) ==
    /\ Len(memories) < MaxMem
    /\ LET entry == memory_entry(t, session_data, user_id, metadata)
           mems == add_append(memories, entry)
       IN /\ memories' = mems
          /\ file' = save_memories(mems, file, writable)
          /\ call' = [Call("add") EXCEPT !.user_id = user_id, !.ok = TRUE,
                                       !.metadata = metadata]
    /\ UNCHANGED <<writable, pristine, orchestrator, second>>

\* A clear_memory whose comprehension keeps the user's entries.
clear_keep_inverted(mems, user_id) ==
    IF Truthy(user_id)
    THEN SelectSeq(mems, LAMBDA m : m.user_id = user_id)
    ELSE <<>>

\* the entries clear_memory keeps
clear_keep(mems, user_id) ==
    IF Truthy(user_id)
    THEN SelectSeq(mems, LAMBDA m : m.user_id # user_id)
    ELSE <<>>

\* clear_memory(user_id)
Clear(user_id) ==
    /\ LET mems == clear_keep(memories, user_id)
       IN /\ memories' = mems
          /\ file' = save_memories(mems, file, writable)
          /\ call' = [Call("clear") EXCEPT !.user_id = user_id,
                          !.removed = Len(memories) - Len(mems)]
    /\ pristine' = FALSE
    /\ UNCHANGED <<writable, orchestrator, second>>

--------------------------------------------------------------------------
\* search_memory

\* A filter loop in which a key the metadata lacks excludes the entry.
filters_match_strict(memory, filters) ==
    \A i \in 1..Len(filters) :
        /\ HasKey(memory.metadata, filters[i].k)
        /\ Get(memory.metadata, filters[i].k) = filters[i].v

\* A filter loop that looks at the first key of filters only.
filters_match_first_key(memory, filters) ==
    \A i \in 1..Len(filters) :
        i = 1 => ~(HasKey(memory.metadata, filters[i].k)
                   /\ Get(memory.metadata, filters[i].k) # filters[i].v)

\* the inner loop over filters.items(): no key of filters that the entry's
\* metadata carries has another value there
filters_match(memory, filters) ==
    \A i \in 1..Len(filters) :
        ~(HasKey(memory.metadata, filters[i].k)
          /\ Get(memory.metadata, filters[i].k) # filters[i].v)

\* A user_id test that lets the entries without user id through.
user_skips_owned_only(memory, user_id) ==
    Truthy(user_id) /\ Truthy(memory.user_id) /\ memory.user_id # user_id

\* the user_id test of the loop body: the entry is skipped
user_skips(memory, user_id) ==
    Truthy(user_id) /\ memory.user_id # user_id

\* the filters test of the loop body: the entry is skipped
filters_skip(memory, filters) ==
    Truthy(filters) /\ ~filters_match(memory, Val(filters))

\* A query test that lowers the text of the entry but not the query.
query_skips_raw_query(memory, query) ==
    Truthy(query)
    /\ ~Contains(lower(json_dumps(memory.session_data)), Val(query))

\* the query test of the loop body: the entry is skipped
query_skips(memory, query) ==
    Truthy(query)
    /\ ~Contains(lower(json_dumps(memory.session_data)), lower(Val(query)))

\* the query test calls json.dumps on the entry's session_data
query_raises(memory, query) ==
    Truthy(query) /\ ~DictSerializable(memory.session_data)

\* A limit test that stops one entry late.
limit_reached_late(results, limit) == Len(results) > limit

\* if len(results) >= limit: break
limit_reached(results, limit) == Len(results) >= limit

\* the loop of search_memory from entry i on: [ret, raised]
RECURSIVE search_loop(_, _, _, _, _, _, _)
search_loop(mems, i, results, query, user_id, limit, filters) ==
    IF i > Len(mems) THEN [ret |-> results, raised |-> FALSE]
    ELSE IF user_skips(mems[i], user_id)
         THEN search_loop(mems, i + 1, results, query, user_id, limit, filters)
    ELSE IF filters_skip(mems[i], filters)
         THEN search_loop(mems, i + 1, results, query, user_id, limit, filters)
    ELSE IF query_raises(mems[i], query)
         THEN [ret |-> <<>>, raised |-> TRUE]
    ELSE IF query_skips(mems[i], query)
         THEN search_loop(mems, i + 1, results, query, user_id, limit, filters)
    ELSE LET found == Append(results, mems[i])
         IN IF limit_reached(found, limit)
            THEN [ret |-> found, raised |-> FALSE]
            ELSE search_loop(mems, i + 1, found, query, user_id, limit, filters)

search_memory(mems, query, user_id, limit, filters) ==
    search_loop(mems, 1, <<>>, query, user_id, limit, filters)

Search(query, user_id, limit, filters) ==
    /\ LET out == search_memory(memories, query, user_id, limit, filters)
       IN call' = [Call("search") EXCEPT !.query = query, !.user_id = user_id,
                                         !.limit = limit, !.filters = filters,
                                         !.ret = out.ret, !.raised = out.raised]
    /\ UNCHANGED <<memories, file, writable, pristine, orchestrator, second>>

--------------------------------------------------------------------------
\* get_recent_memories

\* [m for m in self.memories if m.get("user_id") == user_id], when user_id is truthy
recent_filter(mems, user_id) ==
    IF Truthy(user_id)
    THEN SelectSeq(mems, LAMBDA m : m.user_id = user_id)
    ELSE mems

\* A sort without reverse=True: oldest first.
sorted_insert_ascending(sorted, e) ==
    LET greater == {i \in 1..Len(sorted) : sorted[i].timestamp > e.timestamp}
        at == IF greater = {} THEN Len(sorted) + 1
              ELSE CHOOSE i \in greater : \A j \in greater : i <= j
    IN SubSeq(sorted, 1, at - 1) \o <<e>> \o SubSeq(sorted, at, Len(sorted))

\* e goes before the first entry of the sorted list with a smaller timestamp
\* (sorted(..., reverse=True) is stable: entries with equal keys keep their order)
sorted_insert(sorted, e) ==
    LET smaller == {i \in 1..Len(sorted) : sorted[i].timestamp < e.timestamp}
        at == IF smaller = {} THEN Len(sorted) + 1
              ELSE CHOOSE i \in smaller : \A j \in smaller : i <= j
    IN SubSeq(sorted, 1, at - 1) \o <<e>> \o SubSeq(sorted, at, Len(sorted))

\* sorted(filtered_memories, key=timestamp, reverse=True)
RECURSIVE sorted_desc(_, _)
sorted_desc(mems, i) ==
    IF i = 0 THEN <<>>
    ELSE sorted_insert(sorted_desc(mems, i - 1), mems[i])

\* sorted_memories[:count], for count >= 0
slice(s, count) == SubSeq(s, 1, IF count < Len(s) THEN count ELSE Len(s))

get_recent_memories(mems, count, user_id) ==
    LET filtered == recent_filter(mems, user_id)
    IN slice(sorted_desc(filtered, Len(filtered)), count)

\* A get_recent_memories that sorts self.memories in place (list.sort).
RecentSortsInPlace(count, user_id) ==
    /\ call' = [Call("recent") EXCEPT !.user_id = user_id, !.limit = count,
                    !.ret = get_recent_memories(memories, count, user_id)]
    /\ memories' = sorted_desc(memories, Len(memories))
    /\ UNCHANGED <<file, writable, pristine, orchestrator, second>>

Recent(count, user_id) ==
    /\ call' = [Call("recent") EXCEPT !.user_id = user_id, !.limit = count,
                    !.ret = get_recent_memories(memories, count, user_id)]
    /\ UNCHANGED <<memories, file, writable, pristine, orchestrator, second>>

--------------------------------------------------------------------------
\* get_memory_stats

\* len(set(m.get("user_id") for m in self.memories if m.get("user_id")))
unique_users(mems) ==
    Cardinality({ mems[i].user_id :
                    i \in {j \in 1..Len(mems) : Truthy(mems[j].user_id)} })

\* self.memories[0].get("timestamp") if self.memories else None
oldest_memory(mems) ==
    IF mems # <<>> THEN Some(mems[1].timestamp) ELSE Nothing

\* self.memories[-1].get("timestamp") if self.memories else None
newest_memory(mems) ==
    IF mems # <<>> THEN Some(mems[Len(mems)].timestamp) ELSE Nothing

get_memory_stats(mems) ==
    [total_memories |-> Len(mems),
     unique_users |-> unique_users(mems),
     oldest_memory |-> oldest_memory(mems),
     newest_memory |-> newest_memory(mems)]

Stats ==
    /\ call' = [Call("stats") EXCEPT !.stats = get_memory_stats(memories)]
    /\ UNCHANGED <<memories, file, writable, pristine, orchestrator, second>>

--------------------------------------------------------------------------
\* OrchestratorAgent (src/agents/orchestrator.py)

ZipOakland == <<"9", "4", "6", "1", "2">>
ZipSanFrancisco == <<"9", "4", "1", "0", "2">>
ZipUnknown == <<"9", "9", "9", "9", "9">>
SixDigits == <<"1", "2", "3", "4", "5", "6">>
CitySanFrancisco == <<"S", "a", "n", " ", "F", "r", "a", "n", "c", "i", "s", "c", "o", ",", " ", "C", "A">>
CityPortland == <<"P", "o", "r", "t", "l", "a", "n", "d", ",", " ", "O", "R">>
DefaultUser == <<"d", "e", "f", "a", "u", "l", "t", "_", "u", "s", "e", "r">>

KeyZipCode == <<"z", "i", "p", "_", "c", "o", "d", "e">>
KeyMunicipality == <<"m", "u", "n", "i", "c", "i", "p", "a", "l", "i", "t", "y">>
KeyState == <<"s", "t", "a", "t", "e">>
KeyLocalAuthority == <<"l", "o", "c", "a", "l", "_", "a", "u", "t", "h", "o", "r", "i", "t", "y">>
KeySuccess == <<"s", "u", "c", "c", "e", "s", "s">>
KeyStatus == <<"s", "t", "a", "t", "u", "s">>
KeyIntent == <<"i", "n", "t", "e", "n", "t">>
KeyProduct == <<"p", "r", "o", "d", "u", "c", "t">>

\* the records of the mock database of LocationAgent.get_recycling_info, with
\* the fields the orchestrator reads
LocationOakland ==
    << Pair(KeyZipCode, PyStr(ZipOakland)),
       Pair(KeyMunicipality, PyStr(<<"O", "a", "k", "l", "a", "n", "d">>)),
       Pair(KeyState, PyStr(<<"C", "A">>)),
       Pair(KeyLocalAuthority, PyDict(<<"O", "a", "k", "l", "a", "n", "d", " ", "R", "e", "c", "y", "c", "l", "e", "s">>)) >>

LocationSanFrancisco ==
    << Pair(KeyZipCode, PyStr(ZipSanFrancisco)),
       Pair(KeyMunicipality, PyStr(<<"S", "a", "n", " ", "F", "r", "a", "n", "c", "i", "s", "c", "o">>)),
       Pair(KeyState, PyStr(<<"C", "A">>)),
       Pair(KeyLocalAuthority, PyDict(<<"R", "e", "c", "o", "l", "o", "g", "y">>)) >>

\* the dict get_recycling_info returns for a location it does not know
LocationNotFound == << Pair(KeyStatus, PyStr(<<"e", "r", "r", "o", "r">>)) >>

\* a record whose local_authority is a string, not a dict
LocationFlat ==
    << Pair(KeyZipCode, PyStr(ZipSanFrancisco)),
       Pair(KeyLocalAuthority, PyStr(<<"R", "e", "c", "o", "l", "o", "g", "y">>)) >>

\* {"success": False}
ReportsFailure == << Pair(KeySuccess, PyFalse) >>

\* metadata values are atoms: the atom of a zip code string
ZipAtom(zip) ==
    CASE zip = ZipOakland -> "94612"
      [] zip = ZipSanFrancisco -> "94102"
      [] OTHER -> "99999"

\* OrchestratorAgent(memory_service): the agents are None until
\* initialize_agents; memory_service is TRUE for the store, FALSE for None
OrchestratorAgent(memory_service) ==
    [memory_service |-> memory_service,
     product_agent |-> "None",
     location_agent |-> "None",
     synthesis_agent |-> "None"]

\* Every agent object has a run method, LocationAgent too.
HasRunAll(agent) == agent # "None"

\* the classes whose instances have a run method; LocationAgent
\* (agents/location.py) has none, "Runner" is any other object with one
HasRun(agent) == agent \in {"ProductIntelligenceAgent", "SynthesisAgent", "Runner"}

initialize_agents(product_agent, location_agent, synthesis_agent) ==
    [orchestrator EXCEPT !.product_agent = product_agent,
                         !.location_agent = location_agent,
                         !.synthesis_agent = synthesis_agent]

InitializeAgents(product_agent, location_agent, synthesis_agent) ==
    /\ orchestrator' =
          initialize_agents(product_agent, location_agent, synthesis_agent)
    /\ call' = Call("initialize_agents")
    /\ UNCHANGED <<memories, file, writable, pristine, second>>

IsDigit(c) == c \in {"0", "1", "2", "3", "4", "5", "6", "7", "8", "9"}

\* \w, on the characters the model uses
IsWord(c) == c \notin {" ", ","}

\* \b between the characters i and i + 1 of chars
WordBoundary(chars, i) ==
    (i >= 1 /\ IsWord(chars[i])) # (i + 1 <= Len(chars) /\ IsWord(chars[i + 1]))

\* the places where \b\d{5}\b matches
ZipMatches(chars) ==
    { p \in 1..(Len(chars) - 4) :
        /\ \A k \in 0..4 : IsDigit(chars[p + k])
        /\ WordBoundary(chars, p - 1)
        /\ WordBoundary(chars, p + 4) }

\* re.search(r'\b\d{5}\b', location): the leftmost match, else None
extract_zip_code(location) ==
    IF ZipMatches(location) = {} THEN Nothing
    ELSE LET p == CHOOSE q \in ZipMatches(location) :
                      \A r \in ZipMatches(location) : q <= r
         IN Some(SubSeq(location, p, p + 4))

\* _parse_json_response, for a response that is not an exception: a dict is
\* returned as it is, a text is parsed; JSONDecodeError gives {'success':
\* False, ...}, a JSON value that is not an object is returned as it is
parse_json_response(response) ==
    IF response.kind \in {"dict", "json"} THEN [isdict |-> TRUE, d |-> response.d]
    ELSE IF response.kind = "garbage" THEN [isdict |-> TRUE, d |-> ReportsFailure]
    ELSE [isdict |-> FALSE, d |-> <<>>]

\* A test of the success flag that lets every answer through.
reports_success_always(d) == TRUE

\* d.get('success', True) is truthy
reports_success(d) ==
    IF HasKey(d, KeySuccess) THEN Get(d, KeySuccess).s # <<>> ELSE TRUE

\* the dict a handler returns, and the store and file it leaves; invoked is
\* filled in by After, recovered by Recovered
Outcome(status, message, location_data, mems, f) ==
    [status |-> status, message |-> message, location_data |-> location_data,
     memories |-> mems, file |-> f, invoked |-> <<>>, recovered |-> Nothing]

\* the outcome, reached after these calls were made, in this order: "intent"
\* is _run_intent_agent, "product", "location" and "synthesis" are the run
\* methods of the three agents, "lookup" is _get_location_data
After(steps, out) == [out EXCEPT !.invoked = steps]

\* the outcome, with what _get_location_data had returned
Recovered(location_data, out) == [out EXCEPT !.recovered = location_data]

\* authority.get('name', ...) in the success message needs local_authority to
\* be a dict (absent, it defaults to {})
authority_is_dict(d) ==
    HasKey(d, KeyLocalAuthority) => Get(d, KeyLocalAuthority).kind = "dict"

\* A save that files the record under the zip code as user id.
location_entry_by_zip(t, location_data, zip_code) ==
    memory_entry(t, location_data, Some(zip_code),
                 Some(<< Pair("type", "location_data"),
                         Pair("zip_code", ZipAtom(zip_code)) >>))

\* the entry of the add_session_to_memory call of _handle_location_request
location_entry(t, location_data, zip_code) ==
    memory_entry(t, location_data, Some(DefaultUser),
                 Some(<< Pair("type", "location_data"),
                         Pair("zip_code", ZipAtom(zip_code)) >>))

\* _handle_location_request(location, request_type), the location agent
\* answering response and datetime.now() reading t. Every exception inside is
\* caught and reported as 'Error processing location'.
handle_location_request(location, t, response) ==
    LET failed == Outcome("error", "Error processing location", Nothing,
                          memories, file)
    IN IF location = Nothing THEN failed
       ELSE LET zip_code == extract_zip_code(Val(location))
            IN IF zip_code = Nothing
               THEN Outcome("error", "Please provide a valid 5-digit zip code",
                            Nothing, memories, file)
               ELSE IF ~HasRun(orchestrator.location_agent) THEN failed
               ELSE After(<<"location">>,
                    IF response.kind = "raises" THEN failed
                    ELSE LET parsed == parse_json_response(response)
                        location_data == parsed.d
                        entry == location_entry(t, location_data, Val(zip_code))
                        mems == IF orchestrator.memory_service
                                THEN add_append(memories, entry) ELSE memories
                        f == IF orchestrator.memory_service
                             THEN save_memories(mems, file, writable) ELSE file
                    IN IF ~parsed.isdict THEN failed
                       ELSE IF ~reports_success(location_data)
                       THEN Outcome("error", "Unable to find recycling information",
                                    Nothing, memories, file)
                       ELSE IF ~authority_is_dict(location_data)
                       THEN Outcome("error", "Error processing location", Nothing,
                                    mems, f)
                       ELSE Outcome("success", "Location saved",
                                    Some(location_data), mems, f))

\* the dicts the intent agent is instructed to answer with
IntentGeneral == << Pair(KeyIntent, PyStr(<<"g", "e", "n", "e", "r", "a", "l", "_", "q", "u", "e", "s", "t", "i", "o", "n">>)) >>
IntentUnclear == << Pair(KeyIntent, PyStr(<<"u", "n", "c", "l", "e", "a", "r">>)) >>
IntentCheck ==
    << Pair(KeyIntent, PyStr(<<"c", "h", "e", "c", "k", "_", "r", "e", "c", "y", "c", "l", "a", "b", "i", "l", "i", "t", "y">>)), Pair(KeyProduct, PyStr(<<"b", "o", "t", "t", "l", "e">>)) >>
IntentCheckNoProduct == << Pair(KeyIntent, PyStr(<<"c", "h", "e", "c", "k", "_", "r", "e", "c", "y", "c", "l", "a", "b", "i", "l", "i", "t", "y">>)) >>

\* a product record and a synthesis result
ProductData == << Pair(KeyProduct, PyStr(<<"b", "o", "t", "t", "l", "e">>)) >>
SynthesisData == << Pair(<<"r", "e", "c", "o", "m", "m", "e", "n", "d", "a", "t", "i", "o", "n">>, PyStr(<<"o", "k">>)) >>

\* d.get(key)
DictGet(d, key) == IF HasKey(d, key) THEN Some(Get(d, key)) ELSE Nothing

\* A lookup that searches under the location of the request as user id.
get_location_data_by_user(user_location) ==
    IF ~orchestrator.memory_service THEN Nothing
    ELSE LET results == search_memory(memories, Nothing, user_location, 1,
                                      Some(<< Pair("type", "location_data") >>)).ret
         IN IF results # <<>> THEN Some(results[1].session_data) ELSE Nothing

\* _get_location_data(user_location): the session_data of the first entry
\* search_memory returns for user "default_user" with type location_data
get_location_data(user_location) ==
    IF ~orchestrator.memory_service THEN Nothing
    ELSE LET results == search_memory(memories, Nothing, Some(DefaultUser), 1,
                                      Some(<< Pair("type", "location_data") >>)).ret
         IN IF results # <<>> THEN Some(results[1].session_data) ELSE Nothing

\* A general-question handler that answers with the status app.py still tests
\* for, "not_implemented".
handle_general_question_not_implemented(intent_data) ==
    Outcome("not_implemented", "General answer", Nothing, memories, file)

\* _handle_general_question
handle_general_question(intent_data) ==
    Outcome("success", "General answer", Nothing, memories, file)

\* _handle_recyclability_check(user_query, user_location), the agents answering
\* responses.intent, responses.product and responses.synthesis. Every exception
\* inside is caught and reported as 'Error processing request'.
handle_recyclability_check(user_query, user_location, responses) ==
    LET failed == Outcome("error", "Error processing request", Nothing,
                          memories, file)
        intent_data == parse_json_response(responses.intent)
        intent == DictGet(intent_data.d, KeyIntent)
        product == DictGet(intent_data.d, KeyProduct)
        product_data == parse_json_response(responses.product)
        location_data == get_location_data(user_location)
        to_intent == <<"intent">>
        to_product == <<"intent", "product">>
        to_lookup == <<"intent", "product", "lookup">>
        to_synthesis == <<"intent", "product", "lookup", "synthesis">>
    IN IF responses.intent.kind = "raises" \/ ~intent_data.isdict
       THEN After(to_intent, failed)
       ELSE IF intent = Some(PyStr(<<"g", "e", "n", "e", "r", "a", "l", "_", "q", "u", "e", "s", "t", "i", "o", "n">>))
       THEN After(to_intent, handle_general_question(intent_data.d))
       ELSE IF intent = Some(PyStr(<<"u", "n", "c", "l", "e", "a", "r">>))
       THEN After(to_intent, Outcome("needs_clarification",
                                 "What would you like to know", Nothing,
                                 memories, file))
       ELSE IF product = Nothing \/ Val(product).s = <<>>
       THEN After(to_intent, Outcome("needs_info",
                                 "What item would you like to check", Nothing,
                                 memories, file))
       ELSE IF ~HasRun(orchestrator.product_agent) THEN After(to_intent, failed)
       ELSE IF responses.product.kind = "raises" \/ ~product_data.isdict
       THEN After(to_product, failed)
       ELSE IF ~reports_success(product_data.d)
       THEN After(to_product,
                  Outcome("error", "I couldn't find specific recycling information",
                          Nothing, memories, file))
       ELSE IF location_data = Nothing \/ Val(location_data) = <<>>
       THEN After(to_lookup, Recovered(location_data,
                  Outcome("needs_location", "I need your location", Nothing,
                          memories, file)))
       ELSE IF ~HasRun(orchestrator.synthesis_agent)
       THEN After(to_lookup, Recovered(location_data, failed))
       ELSE IF responses.synthesis.kind # "dict"
       THEN After(to_synthesis, Recovered(location_data, failed))
       ELSE After(to_synthesis, Recovered(location_data,
                  Outcome("success", "Recommendation", location_data,
                          memories, file)))

\* A routing that sends only "location_setup" to the location handler.
process_request_setup_only(user_query, user_location, request_type, t, responses) ==
    IF request_type = "location_setup"
    THEN handle_location_request(user_location, t, responses.location)
    ELSE handle_recyclability_check(user_query, user_location, responses)

\* process_request(user_query, user_location, request_type). The handlers
\* catch every exception themselves, so the except branch of process_request
\* is not taken.
process_request(user_query, user_location, request_type, t, responses) ==
    IF request_type \in {"location_setup", "location_update"}
    THEN handle_location_request(user_location, t, responses.location)
    ELSE handle_recyclability_check(user_query, user_location, responses)

ProcessRequest(user_query, user_location, request_type, t, responses) ==
    LET out == process_request(user_query, user_location, request_type, t,
                               responses)
    IN /\ Len(out.memories) <= MaxMem
       /\ memories' = out.memories
       /\ file' = out.file
       /\ call' = [Call("process_request") EXCEPT
                       !.request_type = request_type,
                       !.user_location = user_location,
                       !.status = out.status,
                       !.message = out.message,
                       !.location_data = out.location_data,
                       !.invoked = out.invoked,
                       !.recovered = out.recovered,
                       !.responses = responses]
       /\ UNCHANGED <<writable, pristine, orchestrator, second>>

\* orchestrator.save_to_memory(user_query, response, user_id, metadata), as
\* test_memory.py calls it: OrchestratorAgent has no such attribute, the
\* lookup raises AttributeError.
SaveToMemory(user_query, response, user_id, metadata) ==
    /\ call' = [Call("save_to_memory") EXCEPT !.user_id = user_id,
                    !.metadata = metadata, !.raised = TRUE]
    /\ UNCHANGED <<memories, file, writable, pristine, orchestrator, second>>

\* The chat branch of app.py ingests the exchange itself, under the location
\* of the user profile as user id and with metadata that has no "type" key.
\* The profile holds a location once a location request for it has returned
\* "success", which has stored a record for its zip code.
AppIngest(location, t) ==
    /\ orchestrator.memory_service
    /\ \E i \in 1..Len(memories) :
          /\ memories[i].user_id = Some(DefaultUser)
          /\ memories[i].metadata = << Pair("type", "location_data"),
                                       Pair("zip_code", ZipAtom(location)) >>
    /\ Add(sdStr, Some(location),
           Some(<< Pair("zip_code", ZipAtom(location)),
                   Pair("query_type", "recyclability_check") >>), t)

--------------------------------------------------------------------------
\* The arguments the callers pass.

UserArgs == {Nothing, Some(EmptyUser), Some(UserA), Some(UserB)}
ReadUserArgs == {Nothing, Some(EmptyUser), Some(UserA)}
FilterArgs == {Nothing, Some(mdLoc), Some(mdLocZip1)}
QueryArgs == {Nothing, Some(<<"p", "E">>)}
LimitArgs == 0..MaxLimit

\* readings of datetime.now(), a wall clock: it is not monotonic
Times == {1, 2}

\* (session_data, user_id, metadata) of the add_session_to_memory calls
AddArgs ==
    { <<sdStr, Some(UserA), Some(mdLoc)>>,
      <<sdStr, Some(UserB), Nothing>>,
      <<sdTuple, Nothing, Nothing>>,
      <<sdSet, Some(EmptyUser), Some(mdEmpty)>> }

\* A store constructed on a location that is missing or holds no document.
Init ==
    /\ memories = <<>>
    /\ file \in {FileMissing, FileUndecodable}
    /\ writable \in BOOLEAN
    /\ call = Call("construct")
    /\ pristine = TRUE
    /\ orchestrator = OrchestratorAgent(TRUE)
    /\ second = NoSecond

Reads(queries, users, limits, filters) ==
    \/ \E q \in queries, u \in users, l \in limits, f \in filters :
          Search(q, u, l, f)
    \/ \E c \in limits, u \in users : Recent(c, u)

Next ==
    \/ \E rd \in BOOLEAN : Construct(rd)
    \/ \E a \in AddArgs, t \in Times : Add(a[1], a[2], a[3], t)
    \/ \E u \in UserArgs : Clear(u)
    \/ Reads(QueryArgs, {Nothing, Some(UserA)}, {MaxLimit}, {Some(mdLoc)})
    \/ Stats

Spec == Init /\ [][Next]_vars

--------------------------------------------------------------------------
\* The read operations on the stores a construction can load: one read per
\* behaviour, on a store drawn from two families of documents.

UserIds == {Nothing, Some(UserA), Some(UserB)}
Tags == {mdEmpty, mdLoc, mdChat, mdLocZip2}
Stamps == {1, 2, 3}

\* entries stamped in store order, user ids and metadata free
StoresByTag ==
    UNION { { [i \in 1..n |-> Entry(i, ut[i][1], sdStr, ut[i][2])] :
                ut \in [1..n -> UserIds \X Tags] } : n \in 0..MaxMem }

\* entries without metadata, user ids and timestamps free
StoresByTime ==
    UNION { { [i \in 1..n |-> Entry(ut[i][2], ut[i][1], sdStr, mdEmpty)] :
                ut \in [1..n -> UserIds \X Stamps] } : n \in 0..MaxMem }

\* payloads {"q": "Pe"} and {"q": ["Pe"]}, and a query, ["P, that is in the text
\* of the second only
Payloads == {sdStr, sdList}
QueryList == <<"[", "\"", "P">>

\* entries stamped in store order without metadata, user ids and payloads free
StoresByPayload ==
    UNION { { [i \in 1..n |-> Entry(i, up[i][1], up[i][2], mdEmpty)] :
                up \in [1..n -> UserIds \X Payloads] } : n \in 0..MaxMem }

InitQuery ==
    /\ memories \in StoresByTag \cup StoresByTime \cup StoresByPayload
    /\ file = FileJson(JsonDump(memories))
    /\ writable = TRUE
    /\ call = Call("construct")
    /\ pristine = FALSE
    /\ orchestrator = OrchestratorAgent(TRUE)
    /\ second = NoSecond

NextQuery ==
    /\ call.op = "construct"
    /\ \/ Reads({Nothing}, ReadUserArgs, LimitArgs, FilterArgs)
       \/ \E u \in ReadUserArgs, l \in LimitArgs :
             Search(Some(QueryList), u, l, Nothing)
       \/ Stats

SpecQuery == InitQuery /\ [][NextQuery]_vars

--------------------------------------------------------------------------
\* Two instances on one storage location: the first is constructed on a
\* location without a document, the second at any later moment, and both
\* ingest in any interleaving.

\* (session_data, user_id, metadata) of the calls on the first instance and on
\* the second
FirstAdds ==
    { <<sdStr, Some(UserA), Some(mdLoc)>>,
      <<sdSet, Some(UserA), Nothing>> }
SecondAdds ==
    { <<sdList, Some(UserB), Nothing>>,
      <<sdTuple, Some(UserB), Some(mdChat)>> }

InitRace ==
    /\ memories = <<>>
    /\ file \in {FileMissing, FileUndecodable}
    /\ writable \in BOOLEAN
    /\ call = Call("construct")
    /\ pristine = TRUE
    /\ orchestrator = OrchestratorAgent(FALSE)
    /\ second = NoSecond

NextRace ==
    \/ \E rd \in BOOLEAN : ConstructSecond(rd)
    \/ \E a \in FirstAdds, t \in Times : Add(a[1], a[2], a[3], t)
    \/ \E a \in SecondAdds, t \in Times : AddSecond(a[1], a[2], a[3], t)

SpecRace == InitRace /\ [][NextRace]_vars

--------------------------------------------------------------------------
\* The orchestrator on a store that starts empty, as app.py and the tests set
\* them up.

\* (product_agent, location_agent, synthesis_agent) of initialize_agents:
\* test_location_orchestration.py, app.py, and app.py with a location agent
\* that has a run method
AgentArgs ==
    { <<"None", "LocationAgent", "None">>,
      <<"ProductIntelligenceAgent", "LocationAgent", "SynthesisAgent">>,
      <<"ProductIntelligenceAgent", "Runner", "SynthesisAgent">> }

\* (request_type, user_location, what the location agent answers)
LocationRequests ==
    { <<"location_setup", Some(ZipOakland), Response("dict", LocationOakland)>>,
      <<"location_setup", Some(ZipSanFrancisco),
        Response("json", LocationSanFrancisco)>>,
      <<"location_setup", Some(ZipUnknown), Response("dict", LocationNotFound)>>,
      <<"location_setup", Some(ZipUnknown), Response("dict", ReportsFailure)>>,
      <<"location_update", Some(ZipOakland), Raises>>,
      <<"location_update", Some(ZipSanFrancisco), Garbage>>,
      <<"location_setup", Some(ZipSanFrancisco), JsonArray>>,
      <<"location_update", Some(ZipSanFrancisco),
        Response("dict", LocationFlat)>>,
      <<"location_update", Some(CitySanFrancisco),
        Response("dict", LocationSanFrancisco)>>,
      <<"location_setup", Some(CityPortland), Response("dict", LocationOakland)>>,
      <<"location_setup", Some(SixDigits), Response("dict", LocationOakland)>>,
      <<"location_setup", Nothing, Response("dict", LocationOakland)>> }

\* (user_location, intent, product, synthesis): the location argument and what
\* the agents answer in a recyclability check
CheckRequests ==
    { <<Nothing, Raises, Raises, Raises>>,
      <<Nothing, Garbage, Raises, Raises>>,
      <<Nothing, JsonArray, Raises, Raises>>,
      <<Nothing, Response("json", IntentGeneral), Raises, Raises>>,
      <<Nothing, Response("json", IntentUnclear), Raises, Raises>>,
      <<Nothing, Response("json", IntentCheckNoProduct), Raises, Raises>>,
      <<Nothing, Response("json", IntentCheck), Raises, Raises>>,
      <<Nothing, Response("json", IntentCheck), Garbage, Raises>>,
      <<Nothing, Response("json", IntentCheck),
        Response("dict", ReportsFailure), Raises>>,
      <<Nothing, Response("json", IntentCheck), Response("dict", ProductData),
        Raises>>,
      <<Nothing, Response("json", IntentCheck), Response("dict", ProductData),
        Garbage>>,
      <<Nothing, Response("json", IntentCheck), Response("json", ProductData),
        Response("dict", SynthesisData)>>,
      <<Some(ZipOakland), Response("json", IntentCheck),
        Response("json", ProductData), Response("dict", SynthesisData)>> }

\* (user_location, intent, product, synthesis) of the requests made with the
\* request_type "location", which is neither of the two location types
OtherTypeRequests ==
    { <<Nothing, Raises, Raises, Raises>>,
      <<Some(ZipOakland), Response("json", IntentCheck),
        Response("json", ProductData), Response("dict", SynthesisData)>> }

InitOrch ==
    /\ memories = <<>>
    /\ file = FileMissing
    /\ writable \in BOOLEAN
    /\ call = Call("construct")
    /\ pristine = TRUE
    /\ orchestrator \in {OrchestratorAgent(TRUE), OrchestratorAgent(FALSE)}
    /\ second = NoSecond

\* app.py and the tests call initialize_agents once, right after the
\* construction; every request reads the clock at the same instant
NextOrch ==
    \/ /\ call.op = "construct"
       /\ \E a \in AgentArgs : InitializeAgents(a[1], a[2], a[3])
    \/ \E rq \in LocationRequests :
          ProcessRequest(<<"q">>, rq[2], rq[1], 1,
                         [NoResponses EXCEPT !.location = rq[3]])
    \/ \E rq \in CheckRequests :
          ProcessRequest(<<"q">>, rq[1], "recyclability_check", 1,
                         [NoResponses EXCEPT !.intent = rq[2], !.product = rq[3],
                                             !.synthesis = rq[4]])
    \/ \E rq \in OtherTypeRequests :
          ProcessRequest(<<"q">>, rq[1], "location", 1,
                         [NoResponses EXCEPT !.intent = rq[2], !.product = rq[3],
                                             !.synthesis = rq[4]])
    \/ SaveToMemory(<<"q">>, <<"r">>, Some(UserA), Some(mdChat))
    \/ AppIngest(ZipOakland, 1)

SpecOrch == InitOrch /\ [][NextOrch]_vars

--------------------------------------------------------------------------
\* Properties of the store. They are stated on the entries themselves, not
\* through the operators above.

NonEmptyId(o) == o # Nothing /\ o # Some(EmptyUser)

IsAdd == call.op = "add"
IsClear == call.op = "clear"
IsSearch == call.op = "search"
IsRecent == call.op = "recent"
IsConstruct == call.op = "construct"
IsStats == call.op = "stats"

\* json.dump can write every entry of the list
AllSerializable(mems) ==
    \A i \in 1..Len(mems) : \A p \in 1..Len(mems[i].session_data) :
        mems[i].session_data[p].v.kind \in {"str", "list", "tuple"}

\* every payload value is one JSON has a type for (str, list): no tuple, no set
AllJsonNative(mems) ==
    \A i \in 1..Len(mems) : \A p \in 1..Len(mems[i].session_data) :
        mems[i].session_data[p].v.kind \in {"str", "list"}

\* b is a with every tuple turned into a list
TupleAsList(a, b) ==
    /\ Len(b) = Len(a)
    /\ \A p \in 1..Len(a) :
          /\ b[p].k = a[p].k
          /\ b[p].v.s = a[p].v.s
          /\ b[p].v.kind = IF a[p].v.kind = "tuple" THEN "list" ELSE a[p].v.kind

\* the file holds the document of exactly the list mems
Persisted(mems) ==
    /\ AllSerializable(mems)
    /\ file.kind = "json"
    /\ Len(file.doc) = Len(mems)
    /\ \A i \in 1..Len(mems) :
          /\ file.doc[i].timestamp = mems[i].timestamp
          /\ file.doc[i].metadata = mems[i].metadata
          /\ file.doc[i].user_id.kind =
                (IF mems[i].user_id = Nothing THEN "null" ELSE "string")
          /\ mems[i].user_id # Nothing => file.doc[i].user_id.s = mems[i].user_id[1]
          /\ Len(file.doc[i].session_data) = Len(mems[i].session_data)
          /\ \A p \in 1..Len(mems[i].session_data) :
                /\ file.doc[i].session_data[p].k = mems[i].session_data[p].k
                /\ file.doc[i].session_data[p].v.s = mems[i].session_data[p].v.s
                /\ file.doc[i].session_data[p].v.kind =
                      (IF mems[i].session_data[p].v.kind = "str"
                       THEN "string" ELSE "array")

\* A construction that returned an instance, made on a pristine instance.
FreshOnPristine == pristine /\ call'.op = "construct" /\ ~call'.raised

C2_TrueOnlyIfPersisted ==
    IsAdd => (~call.raised /\ (call.ok <=> Persisted(memories)))

\* C3. Right after an add_session_to_memory call that returned true, and after
\* a clear_memory call, the storage file decodes to exactly the in-memory list.
C3_FullReplace ==
    ((IsAdd /\ call.ok) \/ IsClear) =>
        (file.kind = "json" /\ Persisted(memories) /\ AllJsonNative(memories))

\* C4. No operation of the store lets an exception escape to its caller.
C4_NoEscape == ~call.raised

\* C11. Load tolerance: constructing a MemoryService on a path that does not
\* exist, or whose content cannot be decoded as the expected format, raises
\* nothing and yields a store whose in-memory sequence is empty.
C11_LoadTolerance ==
    [][(call'.op = "construct" /\ file.kind \in {"missing", "undecodable"}) =>
          (~call'.raised /\ memories' = <<>>)]_vars

\* the user ids in the store that are not null
NonNullUsers == { memories[i].user_id :
                    i \in {j \in 1..Len(memories) : memories[j].user_id # Nothing} }

\* C13. get_memory_stats reports the number of entries, the number of distinct
\* non-null user ids present, the timestamps of the first and of the last entry
\* in store order, and on an empty store 0, 0, null and null.
C13_Stats ==
    IsStats =>
        /\ call.stats.total_memories = Len(memories)
        /\ call.stats.unique_users = Cardinality(NonNullUsers)
        /\ memories # <<>> =>
              /\ call.stats.oldest_memory = <<memories[1].timestamp>>
              /\ call.stats.newest_memory = <<memories[Len(memories)].timestamp>>
        /\ memories = <<>> =>
              /\ call.stats.oldest_memory = Nothing
              /\ call.stats.newest_memory = Nothing

\* a is b with some entries left out: the entries of a are entries of b, in
\* the order of b
IsSubsequence(a, b) ==
    \E at \in [1..Len(a) -> 1..Len(b)] :
        /\ \A i \in 1..Len(a) : a[i] = b[at[i]]
        /\ \A i \in 1..Len(a) : \A j \in 1..Len(a) : i < j => at[i] < at[j]

\* C14. Append-only log: on one instance, add_session_to_memory adds one entry
\* at the tail and leaves the earlier entries and their order unchanged,
\* clear_memory only removes entries, and every other operation leaves the list
\* as it is; so the list stays a subsequence of the entries loaded at
\* construction followed by the entries ingested since.
C14_AppendOnly ==
    [][/\ call'.op = "add" =>
             /\ Len(memories') = Len(memories) + 1
             /\ SubSeq(memories', 1, Len(memories)) = memories
       /\ call'.op = "clear" =>
             /\ Len(memories') = Len(memories) - call'.removed
             /\ IsSubsequence(memories', memories)
       /\ call'.op \in {"search", "recent", "stats"} => memories' = memories
       /\ (call'.op = "construct" /\ call'.raised) => memories' = memories]_vars

\* An add_session_to_memory on a store that had lost an entry to clear_memory:
\* the new entry, with a smaller timestamp than the entry before it, is the last.
C14_Witness ==
    /\ IsAdd /\ ~pristine
    /\ Len(memories) = 3
    /\ memories[1].user_id = Some(UserB)
    /\ memories[2].timestamp = 2
    /\ memories[3].timestamp = 1 /\ memories[3].user_id = Some(UserA)

\* d is a mapping: pairs of a key and a value, the keys distinct
IsMapping(d) ==
    /\ \A p \in 1..Len(d) : DOMAIN d[p] = {"k", "v"}
    /\ \A p \in 1..Len(d) : \A q \in 1..Len(d) : d[p].k = d[q].k => p = q

WellFormed(e) ==
    /\ DOMAIN e = {"timestamp", "user_id", "session_data", "metadata"}
    /\ e.timestamp \in Nat
    /\ IsMapping(e.session_data)
    /\ IsMapping(e.metadata)

\* C15. Entry well-formedness: in a store that started empty every entry has
\* a timestamp, a session_data mapping and a metadata mapping; an
\* add_session_to_memory without metadata (or with null or empty metadata)
\* stores the empty mapping, and the user_id is stored as given (null when
\* absent).
C15_WellFormed ==
    [][/\ \A i \in 1..Len(memories') : WellFormed(memories'[i])
       /\ call'.op = "add" =>
             /\ memories' # <<>>
             /\ memories'[Len(memories')].user_id = call'.user_id
             /\ call'.metadata \in {Nothing, <<mdEmpty>>} =>
                   memories'[Len(memories')].metadata = <<>>]_vars

\* An add_session_to_memory without user_id and without metadata stored an
\* entry with a null user_id and the empty mapping as metadata.
C15_Witness ==
    /\ IsAdd /\ call.user_id = Nothing /\ call.metadata = Nothing
    /\ Len(memories) = 2
    /\ memories[2].user_id = Nothing /\ memories[2].metadata = <<>>
    /\ memories[1].metadata = mdLoc

--------------------------------------------------------------------------
\* Properties of the read operations.

\* the entry is one of the returned ones
Returned(m) == \E r \in 1..Len(call.ret) : call.ret[r] = m

\* metadata md carries key with another value than value / does not carry key
CarriesOther(md, key, value) == \E p \in 1..Len(md) : md[p].k = key /\ md[p].v # value
Lacks(md, key) == \A p \in 1..Len(md) : md[p].k # key

\* the filters of the last call, as a dict ({} when none were given)
GivenFilters == IF call.filters = Nothing THEN <<>> ELSE call.filters[1]

\* C5. search_memory returns at most limit entries, for every limit >= 0.
C5_LimitRespected ==
    IsSearch => Len(call.ret) <= call.limit

\* C6. With a non-empty user id A, search_memory and get_recent_memories return
\* only entries whose user_id is A.
C6_UserScoping ==
    ((IsSearch \/ IsRecent) /\ NonEmptyId(call.user_id)) =>
        \A r \in 1..Len(call.ret) : call.ret[r].user_id = call.user_id

\* A search for user A on a store that also holds an entry of user B and an
\* entry without user returned A's entry.
C6_Witness ==
    /\ IsSearch /\ call.user_id = Some(UserA)
    /\ Len(call.ret) = 1 /\ call.ret[1].user_id = Some(UserA)
    /\ Len(memories) = 3
    /\ \E i \in 1..3 : memories[i].user_id = Some(UserB)
    /\ \E i \in 1..3 : memories[i].user_id = Nothing

\* the entry passes the user_id test and every filter key it carries has the
\* filter's value (no query is given in these calls)
PassesOthers(m) ==
    /\ NonEmptyId(call.user_id) => m.user_id = call.user_id
    /\ \A f \in 1..Len(GivenFilters) :
          ~CarriesOther(m.metadata, GivenFilters[f].k, GivenFilters[f].v)

LacksAFilterKey(m) ==
    \E f \in 1..Len(GivenFilters) : Lacks(m.metadata, GivenFilters[f].k)

\* C7 as stated. An entry whose metadata lacks a key of filters is returned
\* whenever the other predicates match (for a limit of at least one).
C7_PermissiveAlways ==
    (IsSearch /\ call.query = Nothing /\ call.limit >= 1) =>
        \A i \in 1..Len(memories) :
            (LacksAFilterKey(memories[i]) /\ PassesOthers(memories[i]))
                => Returned(memories[i])

\* C7 amended. Such an entry is returned unless the scan stopped before it
\* because limit entries (one entry, for limit 0) had been collected.
C7_PermissiveWithinLimit ==
    (IsSearch /\ call.query = Nothing) =>
        \A i \in 1..Len(memories) :
            (LacksAFilterKey(memories[i]) /\ PassesOthers(memories[i]))
                => \/ Returned(memories[i])
                   \/ /\ Len(call.ret) >= call.limit
                      /\ Len(call.ret) >= 1
                      /\ Cardinality({j \in 1..(i - 1) : PassesOthers(memories[j])})
                            >= Len(call.ret)

\* A search with filters {type, zip_code} returned an entry without metadata
\* and an entry that carries type alone.
C7_Witness ==
    /\ IsSearch /\ call.filters = Some(mdLocZip1) /\ call.limit = 2
    /\ Len(call.ret) = 2
    /\ call.ret[1].metadata = mdEmpty
    /\ call.ret[2].metadata = mdLoc

\* C8. An entry whose metadata carries a key of filters with a different value
\* is never returned.
C8_FilterStrictness ==
    IsSearch =>
        \A r \in 1..Len(call.ret) : \A f \in 1..Len(GivenFilters) :
            ~CarriesOther(call.ret[r].metadata, GivenFilters[f].k, GivenFilters[f].v)

\* A search with filters {type, zip_code} on a store whose first entry has
\* another zip_code and whose second entry has another type returned the third.
C8_Witness ==
    /\ IsSearch /\ call.filters = Some(mdLocZip1)
    /\ Len(memories) = 3
    /\ memories[1].metadata = mdLocZip2
    /\ memories[2].metadata = mdChat
    /\ call.ret = <<memories[3]>>

\* the entry's session_data, as text in lower case, holds the query of the last
\* call in lower case (every entry, when no query was given)
PassesQuery(m) ==
    call.query # Nothing =>
        Contains(lower(json_dumps(m.session_data)), lower(call.query[1]))

\* the entries of the store that satisfy every predicate of the last call
Matching == SelectSeq(memories, LAMBDA m : PassesOthers(m) /\ PassesQuery(m))

\* C12. For limit >= 1, search_memory returns exactly the first min(limit, m)
\* of the m entries that satisfy all given predicates, in store order.
C12_FirstMatches ==
    (IsSearch /\ call.limit >= 1
        /\ (call.user_id = Nothing \/ NonEmptyId(call.user_id))) =>
        call.ret = SubSeq(Matching, 1,
                          IF call.limit < Len(Matching) THEN call.limit
                          ELSE Len(Matching))

\* A search for user A with limit 1 on a store that holds an entry of user B
\* followed by two entries of A returned the second entry alone.
C12_Witness ==
    /\ IsSearch /\ call.user_id = Some(UserA) /\ call.limit = 1
    /\ call.filters = Some(mdLoc)
    /\ Len(memories) = 3
    /\ memories[1].user_id = Some(UserB)
    /\ memories[2].user_id = Some(UserA) /\ memories[2].metadata = mdLoc
    /\ memories[3].user_id = Some(UserA) /\ memories[3].metadata = mdLoc
    /\ call.ret = <<memories[2]>>

\* C21. With a non-empty query, search_memory never returns an entry whose
\* session_data, serialized as text, does not hold the query (both in lower
\* case), and below the limit it returns every entry whose text holds it and
\* that passes the other predicates.
C21_QueryMatch ==
    (IsSearch /\ call.query # Nothing /\ call.query # Some(<<>>)
        /\ (call.user_id = Nothing \/ NonEmptyId(call.user_id))) =>
        /\ ~call.raised
        /\ \A r \in 1..Len(call.ret) : PassesQuery(call.ret[r])
        /\ Len(call.ret) < call.limit =>
              \A i \in 1..Len(memories) :
                  Returned(memories[i]) <=>
                      (PassesOthers(memories[i]) /\ PassesQuery(memories[i]))

\* A search for ["P on a store that holds {"q": "Pe"} and then {"q": ["Pe"]}
\* returned the second entry alone, below its limit.
C21_Witness ==
    /\ IsSearch /\ call.query = Some(QueryList) /\ call.user_id = Nothing
    /\ call.limit = 2
    /\ Len(memories) = 2
    /\ memories[1].session_data = sdStr
    /\ memories[2].session_data = sdList
    /\ call.ret = <<memories[2]>>

\* the entries get_recent_memories chooses from: those of the user when a
\* non-empty user id is given, all of them when none is given
Candidates ==
    IF call.user_id = Nothing THEN memories
    ELSE SelectSeq(memories, LAMBDA m : m.user_id = call.user_id)

CountOf(seq, m) == Cardinality({i \in 1..Len(seq) : seq[i] = m})
CountFrom(seq, t) == Cardinality({i \in 1..Len(seq) : seq[i].timestamp >= t})
Smaller(a, b) == IF a < b THEN a ELSE b

\* C9. get_recent_memories(count, user_id) returns at most count entries, sorted
\* by timestamp descending, and they are the entries with the greatest
\* timestamps among the candidates.
C9_Recency ==
    (IsRecent /\ (call.user_id = Nothing \/ NonEmptyId(call.user_id))) =>
        /\ Len(call.ret) = Smaller(call.limit, Len(Candidates))
        /\ \A i \in 1..Len(call.ret) : \A j \in 1..Len(call.ret) :
              i < j => call.ret[i].timestamp >= call.ret[j].timestamp
        /\ \A r \in 1..Len(call.ret) :
              CountOf(call.ret, call.ret[r]) <= CountOf(Candidates, call.ret[r])
        /\ \A t \in Stamps :
              CountFrom(call.ret, t) = Smaller(call.limit, CountFrom(Candidates, t))

\* With timestamps T1 < T2 < T3 stored in the order T2, T1, T3,
\* get_recent_memories(2) returned [T3, T2].
C9_Witness ==
    /\ IsRecent /\ call.limit = 2 /\ call.user_id = Nothing
    /\ Len(memories) = 3
    /\ memories[1].timestamp = 2 /\ memories[2].timestamp = 1
    /\ memories[3].timestamp = 3
    /\ call.ret = <<memories[3], memories[1]>>

\* C10. clear_memory(A) with a non-empty user id A removes exactly the entries
\* of A and keeps the others in their order; clear_memory() empties the store.
C10_ClearScoping ==
    [][call'.op = "clear" =>
          /\ NonEmptyId(call'.user_id) =>
                memories' = SelectSeq(memories, LAMBDA m : m.user_id # call'.user_id)
          /\ call'.user_id = Nothing => memories' = <<>>]_vars

\* clear_memory("A") took one entry out and left an entry of user B followed by
\* an entry without user.
C10_Witness ==
    /\ IsClear /\ call.user_id = Some(UserA) /\ call.removed = 1
    /\ Len(memories) = 2
    /\ memories[1].user_id = Some(UserB)
    /\ memories[2].user_id = Nothing

\* C22. An empty string given as user_id is a user id like any other:
\* search_memory and get_recent_memories return only entries whose user_id is
\* "", and clear_memory("") removes exactly those entries.
C22_EmptyUserId ==
    [][call'.user_id = Some(EmptyUser) =>
          /\ call'.op \in {"search", "recent"} =>
                \A r \in 1..Len(call'.ret) :
                    call'.ret[r].user_id = Some(EmptyUser)
          /\ call'.op = "clear" =>
                memories' = SelectSeq(memories,
                                      LAMBDA m : m.user_id # Some(EmptyUser))]_vars

\* C20. Read operations have no effect: search_memory, get_recent_memories and
\* get_memory_stats leave the in-memory list (content and order) and the
\* storage file unchanged.
C20_ReadsOnly ==
    [][call'.op \in {"search", "recent", "stats"} =>
          (memories' = memories /\ file' = file)]_vars

\* get_recent_memories(2) returned the two newest entries of a store whose
\* entries are not in the order of their timestamps, and the store and the
\* file still hold the three entries in store order.
C20_Witness ==
    /\ IsRecent /\ call.limit = 2 /\ call.user_id = Nothing
    /\ Len(memories) = 3
    /\ memories[1].timestamp = 1 /\ memories[2].timestamp = 3
    /\ memories[3].timestamp = 2
    /\ call.ret = <<memories[2], memories[3]>>
    /\ file.kind = "json" /\ Len(file.doc) = 3
    /\ \A i \in 1..3 : file.doc[i].timestamp = memories[i].timestamp

--------------------------------------------------------------------------
\* Properties of the orchestrator.

IsProcessRequest == call.op = "process_request"
IsLocationRequest ==
    IsProcessRequest /\ call.request_type \in {"location_setup", "location_update"}

\* the returned location_data names the municipality, the state and the
\* local authority of the record
CarriesLocation(record) ==
    /\ call.location_data # Nothing
    /\ \A key \in {KeyMunicipality, KeyState, KeyLocalAuthority} :
          \E p \in 1..Len(call.location_data[1]) : \E q \in 1..Len(record) :
              /\ call.location_data[1][p].k = key
              /\ record[q] = call.location_data[1][p]

\* C16. A location_setup request with a supported zip code (94612, 94102), on
\* an orchestrator initialised with a LocationAgent and a memory service,
\* returns status "success" with the location_data of that location.
C16_SupportedZip ==
    (IsProcessRequest /\ call.request_type = "location_setup"
        /\ orchestrator.location_agent = "LocationAgent"
        /\ orchestrator.memory_service
        /\ call.user_location \in {Some(ZipOakland), Some(ZipSanFrancisco)}) =>
        /\ call.status = "success"
        /\ call.user_location = Some(ZipOakland) => CarriesLocation(LocationOakland)
        /\ call.user_location = Some(ZipSanFrancisco) =>
              CarriesLocation(LocationSanFrancisco)

\* C17. A location_update or location_setup request whose user_location names
\* a supported city without a zip code returns status "success" with the
\* location_data of that city.
C17_SupportedCity ==
    (IsLocationRequest
        /\ call.user_location \in {Some(CitySanFrancisco), Some(CityPortland)}) =>
        /\ call.status = "success"
        /\ call.location_data # Nothing

C19_SaveToMemory ==
    call.op = "save_to_memory" =>
        /\ ~call.raised
        /\ call.ok
        /\ memories # <<>>
        /\ memories[Len(memories)].user_id = call.user_id

\* the entries stored under "default_user" with metadata type location_data,
\* in the order they were stored
IsLocationRecord(m) ==
    /\ m.user_id = Some(DefaultUser)
    /\ \E p \in 1..Len(m.metadata) :
          m.metadata[p].k = "type" /\ m.metadata[p].v = "location_data"

LocationRecords == SelectSeq(memories, IsLocationRecord)

\* the request was a recyclability check that reached _get_location_data
LookedUp ==
    /\ IsProcessRequest /\ ~IsLocationRequest
    /\ \E k \in 1..Len(call.invoked) : call.invoked[k] = "lookup"

\* C23. Last-known location: the location data a recyclability check recovers
\* from memory is the session_data of the most recently stored location
\* record (the records being those of successful location requests).
C23_LastKnownLocation ==
    (LookedUp /\ orchestrator.memory_service /\ LocationRecords # <<>>
        /\ \A r \in 1..Len(LocationRecords) :
              authority_is_dict(LocationRecords[r].session_data)) =>
        call.recovered =
            Some(LocationRecords[Len(LocationRecords)].session_data)

\* the entry a successful location request stores for its zip code (the
\* locations of the successful requests are the zip codes themselves)
StoresItsLocation(e) ==
    /\ call'.location_data # Nothing
    /\ e.session_data = call'.location_data[1]
    /\ e.user_id = Some(DefaultUser)
    /\ \E zip \in {ZipOakland, ZipSanFrancisco, ZipUnknown} :
          /\ call'.user_location = Some(zip)
          /\ e.metadata = << Pair("type", "location_data"),
                             Pair("zip_code", ZipAtom(zip)) >>

\* the entry passes the predicates of _get_location_data's search: its
\* user_id is "default_user" and its metadata has no other "type"
MatchedByLookup(m) ==
    /\ m.user_id = Some(DefaultUser)
    /\ ~CarriesOther(m.metadata, "type", "location_data")

\* the entry has the form of a stored location: user "default_user", metadata
\* {type: location_data, zip_code: a zip code}
HasLocationForm(m) ==
    /\ m.user_id = Some(DefaultUser)
    /\ \E zip \in {ZipOakland, ZipSanFrancisco, ZipUnknown} :
          m.metadata = << Pair("type", "location_data"),
                          Pair("zip_code", ZipAtom(zip)) >>

InvokedOnly(names) ==
    \A k \in 1..Len(call.invoked) : call.invoked[k] \in names

\* C25. Request routing: a request of type location_setup or location_update
\* goes to the location handler and invokes none of the intent, product and
\* synthesis agents; a request of any other type is handled as a
\* recyclability check, which starts with the intent agent, and never invokes
\* the location agent.
C25_Routing ==
    IsProcessRequest =>
        IF call.request_type \in {"location_setup", "location_update"}
        THEN /\ InvokedOnly({"location"})
             /\ call.status \in {"success", "error"}
             /\ call.recovered = Nothing
        ELSE /\ InvokedOnly({"intent", "product", "lookup", "synthesis"})
             /\ call.invoked # <<>> /\ call.invoked[1] = "intent"

\* A request of type "location" ran the whole recyclability pipeline, and the
\* store holds a record of a location request that had invoked the location
\* agent.
C25_Witness ==
    /\ IsProcessRequest /\ call.request_type = "location"
    /\ call.invoked = <<"intent", "product", "lookup", "synthesis">>
    /\ call.status = "success"
    /\ LocationRecords # <<>>

IsCheck == IsProcessRequest /\ ~IsLocationRequest

Invoked(name) == \E k \in 1..Len(call.invoked) : call.invoked[k] = name

\* the answer is a dict, or a text holding a JSON object
IsObject(response) == response.kind \in {"dict", "json"}

\* the value of key in the answer, when the answer is an object that has it
Answered(response, key) ==
    IF IsObject(response)
    THEN {response.d[p].v.s : p \in {q \in 1..Len(response.d) : response.d[q].k = key}}
    ELSE {}

GeneralQuestion == <<"g", "e", "n", "e", "r", "a", "l", "_", "q", "u", "e", "s", "t", "i", "o", "n">>
Unclear == <<"u", "n", "c", "l", "e", "a", "r">>

\* the order of the steps and the condition of each step, common to C26 as
\* stated and as amended
PipelineSteps ==
    /\ \E n \in 1..4 :
          call.invoked = SubSeq(<<"intent", "product", "lookup", "synthesis">>, 1, n)
    /\ Invoked("product") =>
          /\ IsObject(call.responses.intent)
          /\ Answered(call.responses.intent, KeyIntent)
                \cap {GeneralQuestion, Unclear} = {}
          /\ Answered(call.responses.intent, KeyProduct) \ {<<>>} # {}
    /\ Invoked("lookup") =>
          /\ IsObject(call.responses.product)
          /\ PyFalse.s \notin Answered(call.responses.product, KeySuccess)
    /\ Invoked("synthesis") =>
          /\ LocationRecords # <<>>
          /\ call.recovered # Nothing

\* C26 as stated. Recyclability pipeline order: the steps run in the order
\* intent, product, location lookup, synthesis, each only if the earlier ones
\* passed; a check that does not reach the synthesis agent returns
\* needs_clarification, needs_info, error or needs_location.
C26_PipelineAsStated ==
    IsCheck =>
        /\ PipelineSteps
        /\ ~Invoked("synthesis") =>
              call.status \in {"needs_clarification", "needs_info", "error",
                               "needs_location"}

\* C26, amended. As above, and a check that does not reach the synthesis
\* agent returns needs_clarification, needs_info, error or needs_location, or
\* "success" when the intent is general_question, which is answered after the
\* intent step alone.
C26_Pipeline ==
    IsCheck =>
        /\ PipelineSteps
        /\ ~Invoked("synthesis") =>
              \/ call.status \in {"needs_clarification", "needs_info", "error",
                                  "needs_location"}
              \/ /\ call.status = "success"
                 /\ call.invoked = <<"intent">>
                 /\ GeneralQuestion \in Answered(call.responses.intent, KeyIntent)
        /\ call.status = "needs_clarification" => call.invoked = <<"intent">>
        /\ call.status = "needs_info" => call.invoked = <<"intent">>
        /\ call.status = "needs_location" =>
              call.invoked = <<"intent", "product", "lookup">>

\* A check whose product agent reported success = false returned "error"
\* after the intent and product steps, on a store that holds a location record.
C26_Witness ==
    /\ IsCheck /\ call.status = "error"
    /\ call.invoked = <<"intent", "product">>
    /\ call.responses.product = Response("dict", ReportsFailure)
    /\ LocationRecords # <<>>
    /\ orchestrator.synthesis_agent = "SynthesisAgent"

\* C28. process_request is total: whatever the arguments and whatever the
\* agents do (being None, raising, answering unparsable text or a JSON value
\* that is not an object), it returns a dict whose status is one of success,
\* error, needs_clarification, needs_info, needs_location, with a message,
\* and nothing is raised to the caller.
C28_Total ==
    IsProcessRequest =>
        /\ call.status \in {"success", "error", "needs_clarification",
                            "needs_info", "needs_location"}
        /\ call.message # ""
        /\ ~call.raised

\* A check whose synthesis agent answered unparsable text, after a location
\* had been stored, returned "error".
C28_Witness ==
    /\ IsCheck /\ call.status = "error"
    /\ call.responses.synthesis = Garbage
    /\ call.invoked = <<"intent", "product", "lookup", "synthesis">>

\* C29. A location request that returns "error" leaves the memory service as
\* it was, no entry appended and the file not rewritten, and so does every
\* recyclability check.
C29_ErrorLeavesMemory ==
    [][(call'.op = "process_request"
          /\ (call'.status = "error"
                \/ call'.request_type \notin {"location_setup", "location_update"})) =>
          /\ memories' = memories
          /\ file' = file]_vars

\* C30. The location data of a recyclability check does not depend on the
\* user_location of the request: two checks on the same memory content, both
\* reaching the lookup, recover the same record whatever their user_location.
C30_LocationIndependent ==
    [][(LookedUp /\ LookedUp' /\ memories' = memories) =>
          call'.recovered = call.recovered]_vars

\* A check made for user_location 94612 recovered the record of 94102, the
\* only location record of the store.
C30_Witness ==
    /\ LookedUp /\ call.user_location = Some(ZipOakland)
    /\ call.recovered = Some(LocationSanFrancisco)
    /\ Len(LocationRecords) = 1
    /\ LocationRecords[1].metadata = mdLocZip1

--------------------------------------------------------------------------
\* Properties of two instances on one storage location.

\* the list of the instance that made the last call
WriterMemories == IF call.instance = 1 THEN memories ELSE second.memories

\* C27. Last writer wins: after an ingestion whose write went through (the
\* location is writable and json.dump accepts the list), the file holds the
\* document of the list of the instance that ingested, entry for entry, and
\* so nothing of what the other instance holds beyond it.
C27_LastWriterWins ==
    (IsAdd /\ writable /\ AllSerializable(WriterMemories)) =>
        /\ Persisted(WriterMemories)
        /\ Len(file.doc) = Len(WriterMemories)

\* The first instance ingested after the second one had: the file holds the
\* one entry of the first instance, of user A, and the entry of user B that
\* the second instance holds is not in it.
C27_Witness ==
    /\ IsAdd /\ call.instance = 1 /\ writable
    /\ second.live
    /\ Len(memories) = 1 /\ memories[1].user_id = Some(UserA)
    /\ Len(second.memories) = 1 /\ second.memories[1].user_id = Some(UserB)
    /\ file.kind = "json" /\ Len(file.doc) = 1
    /\ file.doc[1].user_id.s = UserA

==========================================================================
